---- MODULE Spec2Model ----
(***************************************************************************)
(* Model of the vscode-huff debug-session assembly pipeline:               *)
(*   src/src/features/debugger/macro/macroDebugger.js  (macro debugger)    *)
(*   src/src/features/viewer/macroDebugger.js          (earlier macro      *)
(*       debugger, its utils, and the whole-file debugger startDebugger)   *)
(*                                                                         *)
(* Text is a sequence of tokens.  A token is either one character that the *)
(* regular expressions of the source look at (a whitespace character, a    *)
(* brace, a parenthesis, a quote, an angle bracket, "=", a digit) or a     *)
(* word that they treat as one literal or as ordinary text ("#define",     *)
(* "macro", "MAIN", an opcode, ...).  Every regular expression of the      *)
(* source is translated into a matcher over such sequences that follows    *)
(* the expression's quantifiers (\s? , \s+ , lazy and greedy stars).       *)
(***************************************************************************)
EXTENDS Integers, Sequences, FiniteSets, TLC

\* ------------------------------------------------------------------ text

\* The characters \s matches.
WS == {" ", "\n", "\t"}

\* The characters [\d] matches (the digits the inputs use).
Digits == {"0", "1"}

IsWs(t) == t \in WS

\* F(v), with v evaluated once and then used as a value.
With(v, F(_)) == CHOOSE r \in {F(x) : x \in {v}} : TRUE

\* s[from..], the empty sequence when from is past the end.
Drop(s, from) == IF from > Len(s) THEN << >> ELSE SubSeq(s, from, Len(s))

\* The least and the greatest element of a non-empty set of numbers.
Least(S) == CHOOSE x \in S : \A y \in S : x <= y
Greatest(S) == CHOOSE x \in S : \A y \in S : y <= x

\* First index j >= i with text[j] = tok; 0 when there is none (and when i
\* is 0, the failure of what came before).
IndexOf(text, tok, i) ==
  With(i, LAMBDA p :
    IF p = 0 THEN 0
    ELSE With({j \in p..Len(text) : text[j] = tok},
              LAMBDA at : IF at = {} THEN 0 ELSE Least(at)))

\* Last index j >= i with text[j] = tok such that no stop token lies in
\* text[i..j]; 0 when there is none.  This is where a greedy .* followed by
\* the literal tok ends: stops = {"\n"} without the s flag, {} with it.
LastBefore(text, tok, stops, i) ==
  With(i, LAMBDA p :
    IF p = 0 THEN 0
    ELSE With({j \in p..Len(text) : text[j] \in stops}, LAMBDA halt :
           With({j \in p..(IF halt = {} THEN Len(text) ELSE Least(halt) - 1) : text[j] = tok},
                LAMBDA at : IF at = {} THEN 0 ELSE Greatest(at))))

\* A literal token at position i: the next position, 0 on failure.
Lit(text, i, tok) ==
  With(i, LAMBDA p : IF p # 0 /\ p <= Len(text) /\ text[p] = tok THEN p + 1 ELSE 0)

\* [\d] at position i.
Digit(text, i) ==
  With(i, LAMBDA p : IF p # 0 /\ p <= Len(text) /\ text[p] \in Digits THEN p + 1 ELSE 0)

\* \s? at position i (what follows is never whitespace, so taking the
\* whitespace when it is there is the only way the match can go on).
OptWs(text, i) ==
  With(i, LAMBDA p : IF p # 0 /\ p <= Len(text) /\ IsWs(text[p]) THEN p + 1 ELSE p)

\* exactly one \s at position i.
OneWs(text, i) ==
  With(i, LAMBDA p : IF p # 0 /\ p <= Len(text) /\ IsWs(text[p]) THEN p + 1 ELSE 0)

\* \s* at position i: the first position from i on that holds no whitespace.
SkipWs(text, i) ==
  With(i, LAMBDA p :
    IF p = 0 THEN 0
    ELSE Least({j \in p..(Len(text) + 1) : j > Len(text) \/ ~IsWs(text[j])}))

\* \s+ at position i.
PlusWs(text, i) == SkipWs(text, OneWs(text, i))

\* [^\)]* at position i, followed by the literal ")" : the position after ")".
ArgsThenClose(text, i) ==
  With(IndexOf(text, ")", i), LAMBDA c : IF c = 0 THEN 0 ELSE c + 1)

\* array.map(F): the array of the values of F, each computed once.
Each(s, F(_)) ==
  With(s, LAMBDA q : With([i \in 1..Len(q) |-> F(q[i])] \o << >>, LAMBDA r : r))

\* array.join(sep) for an array of texts.
RECURSIVE JoinFrom(_, _, _)
JoinFrom(texts, sep, i) ==
  IF i > Len(texts) THEN << >>
  ELSE IF i = Len(texts) THEN texts[i]
  ELSE texts[i] \o sep \o JoinFrom(texts, sep, i + 1)

Join(texts, sep) == With(texts, LAMBDA t : JoinFrom(t, sep, 1))

\* array.reverse(): the array in reverse order.
Reverse(s) == [i \in 1..Len(s) |-> s[Len(s) + 1 - i]]

\* ------------------------------------------------------- regular expressions

\* /#define\s?macro\s?MAIN[\s\S]*?{[\s\S]*?}/  matched at position i:
\* the index of the last token of the match, 0 when it does not match.
MacroMainRegex(text, i) ==
  LET a == Lit(text, i, "#define")
      b == Lit(text, OptWs(text, a), "macro")
      c == Lit(text, OptWs(text, b), "MAIN")
  IN  With(IndexOf(text, "{", c),
           LAMBDA o : IF o = 0 THEN 0 ELSE IndexOf(text, "}", o + 1))

\* #define\s+macro\s+NAME\s?\(([^\)]*)\)\s?=\s?takes\s?\(([\d])\)\s?
\*   returns\s?\(([\d])\)\s?{   matched at position i: the position after
\* the opening brace, 0 when it does not match.
DefinitionHeader(text, i, name) ==
  LET a  == Lit(text, i, "#define")
      b  == Lit(text, PlusWs(text, a), "macro")
      c  == Lit(text, PlusWs(text, b), name)
      p  == Lit(text, OptWs(text, c), "(")
      q  == ArgsThenClose(text, p)
      e  == Lit(text, OptWs(text, q), "=")
      t  == Lit(text, OptWs(text, e), "takes")
      t1 == Lit(text, OptWs(text, t), "(")
      t2 == Lit(text, Digit(text, t1), ")")
      r  == Lit(text, OptWs(text, t2), "returns")
      r1 == Lit(text, OptWs(text, r), "(")
      r2 == Lit(text, Digit(text, r1), ")")
  IN  Lit(text, OptWs(text, r2), "{")

\* mainRegex of flattenFile, header then (?<body>[\s\S]*?(?=}))} :
\* the index of the closing brace, 0 when it does not match.
MainRegex(text, i) == IndexOf(text, "}", DefinitionHeader(text, i, "MAIN"))

\* constructorRegex of overrideStorage, header then (?<body>[\s\S]*?(?=})) :
\* the index of the last token of the match (the token before the closing
\* brace), 0 when it does not match.
ConstructorRegex(text, i) ==
  With(IndexOf(text, "}", DefinitionHeader(text, i, "CONSTRUCTOR")),
       LAMBDA c : IF c = 0 THEN 0 ELSE c - 1)

\* /#include\s".*"/ matched at position i, . not matching a line end
\* (flags gm): the index of the closing quote, 0 when it does not match.
IncludeRegex(text, i) ==
  LET q == Lit(text, OneWs(text, Lit(text, i, "#include")), "\"")
  IN  LastBefore(text, "\"", {"\n"}, q)

\* The same expression with the s flag (flags gsm): . matches a line end.
IncludeRegexDotAll(text, i) ==
  LET q == Lit(text, OneWs(text, Lit(text, i, "#include")), "\"")
  IN  LastBefore(text, "\"", {}, q)

\* /<.*>/ matched at position i (flags gm).
JumpLabelRegex(text, i) ==
  LastBefore(text, ">", {"\n"}, Lit(text, i, "<"))

\* The expression named by kind, matched at position i.
MatchEnd(kind, text, i) ==
  CASE kind = "macroMain"      -> MacroMainRegex(text, i)
    [] kind = "main"           -> MainRegex(text, i)
    [] kind = "constructor"    -> ConstructorRegex(text, i)
    [] kind = "include"        -> IncludeRegex(text, i)
    [] kind = "includeDotAll"  -> IncludeRegexDotAll(text, i)
    [] kind = "jumpLabel"      -> JumpLabelRegex(text, i)

\* regex.exec / regex.test from position i of the text: the position of
\* the leftmost match, 0 when there is none.
Search(kind, text, i) ==
  With({j \in i..Len(text) : MatchEnd(kind, text, j) # 0},
       LAMBDA at : IF at = {} THEN 0 ELSE Least(at))

\* text.replace(regex, repl) for a regex with the g flag, from position i:
\* every match, leftmost first and not overlapping, is replaced by repl.
RECURSIVE ReplaceFrom(_, _, _, _)
ReplaceFrom(kind, text, i, repl) ==
  With(Search(kind, text, i), LAMBDA at :
    IF at = 0 THEN Drop(text, i)
    ELSE With(MatchEnd(kind, text, at), LAMBDA e :
           SubSeq(text, i, at - 1) \o repl \o ReplaceFrom(kind, text, e + 1, repl)))

\* text.replace(regex, repl) for a regex with the g flag.
ReplaceAll(kind, text, repl) ==
  With(text, LAMBDA t : With(repl, LAMBDA r : ReplaceFrom(kind, t, 1, r)))

\* ------------------------------------------------------------ file system

\* fs maps the paths that hold a file to their text; fs.readFileSync throws
\* for any other path.
\* Whether reading any of the paths fails.
AnyReadFails(fs, paths) == \E i \in 1..Len(paths) : paths[i] \notin DOMAIN fs

\* currentFile.split("/").slice(0, -1).join("/") ; a path is the sequence
\* of its segments.
DirPath(currentFile) == SubSeq(currentFile, 1, Len(currentFile) - 1)

\* The segments of a path text: its tokens without the "/" separators.
Segments(toks) == SelectSeq(toks, LAMBDA t : t # "/")

\* Path normalisation as done by path.join and by the file system: "." is
\* dropped and ".." removes the segment before it.
RECURSIVE Normalize(_, _)
Normalize(done, rest) ==
  IF Len(rest) = 0 THEN done
  ELSE IF rest[1] = "." THEN Normalize(done, Tail(rest))
  ELSE IF rest[1] = ".." /\ Len(done) > 0
       THEN Normalize(SubSeq(done, 1, Len(done) - 1), Tail(rest))
  ELSE Normalize(Append(done, rest[1]), Tail(rest))

\* /#include\s?"/ matched at position i: the position after the quote.
IncludeOpen(toks, i) == Lit(toks, OptWs(toks, Lit(toks, i, "#include")), "\"")

\* importPath.replace(/#include\s?"/, "") : the first match is removed.
StripIncludeOpen(toks) ==
  With({i \in 1..Len(toks) : IncludeOpen(toks, i) # 0}, LAMBDA at :
    IF at = {} THEN toks
    ELSE SubSeq(toks, 1, Least(at) - 1) \o Drop(toks, IncludeOpen(toks, Least(at))))

\* What is left of a token whose first character was removed.
Mangle(tok) ==
  CASE tok = "."  -> << >>
    [] tok = "/"  -> << >>
    [] tok = ".." -> <<".">>
    [] OTHER      -> <<"?">>

\* /#include\s?"./ matched at position i: the position after the character
\* that follows the quote (. does not match a line end).
IncludeOpenAndChar(toks, i) ==
  With(IncludeOpen(toks, i),
       LAMBDA q : IF q # 0 /\ q <= Len(toks) /\ toks[q] # "\n" THEN q + 1 ELSE 0)

\* importPath.replace(/#include\s?"./, "") : as above, and the character
\* after the quote is removed with it.
StripIncludeOpenAndChar(toks) ==
  With({i \in 1..Len(toks) : IncludeOpenAndChar(toks, i) # 0}, LAMBDA at :
    IF at = {} THEN toks
    ELSE With(IncludeOpenAndChar(toks, Least(at)), LAMBDA e :
           SubSeq(toks, 1, Least(at) - 1) \o Mangle(toks[e - 1]) \o Drop(toks, e)))

\* string.replace('"', "") : the first quote is removed.
StripFirstQuote(toks) ==
  With(toks, LAMBDA t : With(IndexOf(t, "\"", 1), LAMBDA q :
    IF q = 0 THEN t ELSE SubSeq(t, 1, q - 1) \o Drop(t, q + 1)))

\* path.join(`${cwd}/${dirPath}`, importPath.replace(...).replace('"', ""))
ResolveImport(cwd, dirPath, importPath) ==
  Normalize(<< >>, cwd \o dirPath
                   \o Segments(StripFirstQuote(StripIncludeOpen(importPath))))

\* `${cwd}/${dirPath}${importPath.replace(...).replace('"', "")}` : plain
\* concatenation, so what is left of the import path is glued to the last
\* segment of dirPath unless it starts with a separator.
ResolveImportViewer(cwd, dirPath, importPath) ==
  With(StripFirstQuote(StripIncludeOpenAndChar(importPath)), LAMBDA rest :
    IF Len(rest) > 0 /\ rest[1] = "/"
    THEN Normalize(<< >>, cwd \o dirPath \o Segments(rest))
    ELSE IF Len(dirPath) = 0
    THEN Normalize(<< >>, cwd \o Segments(rest))
    ELSE cwd \o SubSeq(dirPath, 1, Len(dirPath) - 1) \o <<"?">> \o Tail(Segments(rest)))

\* ------------------------------------------------------- source flattener

\* The entry point createCompiledMacro writes around the pushed arguments
\* and the body.
MainOpen ==
  <<"#define", " ", "macro", " ", "MAIN", "(", ")", " ", "=", " ",
    "takes", "(", "0", ")", " ", "returns", " ", "(", "0", ")", " ", "{">>

\* A plausible slip: the current file put in front of the imports.
MacroPathsCurrentFirst(cwd, currentFile, imports) ==
  <<cwd \o currentFile>>
    \o Each(imports, LAMBDA importPath : ResolveImport(cwd, DirPath(currentFile), importPath))

\* paths of createCompiledMacro: the imports in order, then the current file.
MacroPaths(cwd, currentFile, imports) ==
  Each(imports, LAMBDA importPath : ResolveImport(cwd, DirPath(currentFile), importPath))
    \o <<cwd \o currentFile>>

\* A plausible slip: the entry points are left in.
StripFileKeepMain(text) == ReplaceAll("include", text, << >>)

\* One file of createCompiledMacro: its text without entry points and
\* without include directives.
StripFile(text) ==
  ReplaceAll("include", ReplaceAll("macroMain", text, << >>), << >>)

\* The macro body after the jump-label replacement of createCompiledMacro.
ReplaceJumpLabels(body) ==
  IF Search("jumpLabel", body, 1) # 0
  THEN ReplaceAll("jumpLabel", body, <<"error">>)
         \o <<"error:", "\n", "\t", "0x0", " ", "dup1", " ", "stop">>
  ELSE body

\* The text of createCompiledMacro's template.
MacroTemplate(files, args, body) ==
  <<"\n">> \o Join(files, <<"\n">>) \o <<"\n">> \o MainOpen
    \o <<"\n", " ", " ">> \o Join(Each(args, LAMBDA a : <<a>>), <<" ">>)
    \o <<"\n", " ", " ">> \o body \o <<"\n", "}">>

\* createCompiledMacro of debugger/macro/macroDebugger.js.  The result:
\* err (a read threw), text (the returned source), paths (the list handed
\* to the reader), args (argsObject after the call: reverse() reverses the
\* caller's array in place).
createCompiledMacro(cwd, macro, argsObject, currentFile, imports, fs) ==
  With(MacroPaths(cwd, currentFile, imports), LAMBDA paths :
    IF AnyReadFails(fs, paths)
    THEN [err |-> TRUE, text |-> << >>, paths |-> paths, args |-> argsObject]
    ELSE [err   |-> FALSE,
          text  |-> MacroTemplate(Each(paths, LAMBDA path : StripFile(fs[path])),
                                  Reverse(argsObject),
                                  ReplaceJumpLabels(macro.body)),
          paths |-> paths,
          args  |-> Reverse(argsObject)])

\* paths of the viewer's createCompiledMacro.
ViewerPaths(cwd, currentFile, imports) ==
  Each(imports, LAMBDA importPath :
         ResolveImportViewer(cwd, DirPath(currentFile), importPath))
    \o <<cwd \o currentFile>>

\* One file of the viewer's createCompiledMacro.
StripFileViewer(text) ==
  ReplaceAll("includeDotAll", ReplaceAll("macroMain", text, << >>), << >>)

\* createCompiledMacro of viewer/macroDebugger.js: the arguments are joined
\* as given and the body is used as it is.
createCompiledMacroViewer(cwd, macro, argsObject, currentFile, imports, fs) ==
  With(ViewerPaths(cwd, currentFile, imports), LAMBDA paths :
    IF AnyReadFails(fs, paths)
    THEN [err |-> TRUE, text |-> << >>, paths |-> paths, args |-> argsObject]
    ELSE [err   |-> FALSE,
          text  |-> MacroTemplate(Each(paths, LAMBDA path : StripFileViewer(fs[path])),
                                  argsObject, macro.body),
          paths |-> paths,
          args  |-> argsObject])

\* paths of flattenFile: the imports in order (the current file is read
\* apart from them).
FlattenPaths(cwd, currentFile, imports) ==
  Each(imports, LAMBDA importPath : ResolveImport(cwd, DirPath(currentFile), importPath))

\* files of flattenFile: the current file's text as it is, then every
\* import without the entry points mainRegex matches.
FlattenFiles(cwd, currentFile, imports, fs) ==
  <<fs[cwd \o currentFile]>>
    \o Each(FlattenPaths(cwd, currentFile, imports),
             LAMBDA path : ReplaceAll("main", fs[path], << >>))

\* The files flattenFile reads, in the order of its files array: the
\* current file, then the paths.
FlattenRead(cwd, currentFile, imports) ==
  <<cwd \o currentFile>> \o FlattenPaths(cwd, currentFile, imports)

\* flattenFile of the whole-file debugger: err (a read threw), text (the
\* returned source), paths (its paths array), read (the files in the order
\* of its files array).
flattenFile(cwd, currentFile, imports, fs) ==
  With(FlattenRead(cwd, currentFile, imports), LAMBDA read :
    IF AnyReadFails(fs, read)
    THEN [err |-> TRUE, text |-> << >>, paths |-> Tail(read), read |-> read]
    ELSE [err   |-> FALSE,
          text  |-> ReplaceAll("include",
                               Join(FlattenFiles(cwd, currentFile, imports, fs), <<"\n">>),
                               << >>),
          paths |-> Tail(read),
          read  |-> read])

\* --------------------------------------------------- storage override

\* The sstore text of the overrides, in the order of stateValues.
RECURSIVE Overrides(_)
Overrides(stateValues) ==
  IF Len(stateValues) = 0 THEN << >>
  ELSE <<stateValues[1].value, " ", stateValues[1].key, " ", "sstore", "\n">>
         \o Overrides(Tail(stateValues))

\* A plausible slip: a constructor is appended whether or not the text
\* holds one.
overrideStorageAppendOnly(macro, stateValues) ==
  macro
    \o <<"\n", "#define", " ", "macro", " ", "CONSTRUCTOR", "(", ")", " ",
         "=", " ", "takes", "(", "0", ")", " ", "returns", "(", "0", ")",
         " ", "{", "\n", "\t">>
    \o Overrides(stateValues) \o <<"}">>

\* overrideStorage of debugger/macro/macroDebugger.js.
overrideStorage(macro, stateValues) ==
  With(Search("constructor", macro, 1), LAMBDA at :
    IF at # 0
    THEN ReplaceAll("constructor", macro,
                    SubSeq(macro, at, ConstructorRegex(macro, at))
                      \o <<"\n", "\t">> \o Overrides(stateValues))
    ELSE macro
           \o <<"\n", "#define", " ", "macro", " ", "CONSTRUCTOR", "(", ")", " ",
                "=", " ", "takes", "(", "0", ")", " ", "returns", "(", "0", ")",
                " ", "{", "\n", "\t">>
           \o Overrides(stateValues) \o <<"}">>)

\* overrideStorage of viewer/macroDebugger.js: a constructor is always
\* appended.
overrideStorageViewer(macro, stateValues) ==
  macro
    \o <<"\n", "#define", " ", "macro", " ", "CONSTRUCTOR", "(", ")", " ",
         "=", " ", "takes", "(", "0", ")", " ", "returns", "(", "0", ")",
         " ", "{", "\n">>
    \o Overrides(stateValues) \o <<"}">>

\* ------------------------------------------------------------- the inputs

\* A macro definition of the source language.  kw is the whitespace between
\* the keywords, par the whitespace before a parenthesis, inner the
\* whitespace inside the arity parentheses.
Definition(name, kw, par, inner, body) ==
  <<"#define">> \o kw \o <<"macro">> \o kw \o <<name>> \o par \o <<"(", ")", " ", "=", " ", "takes">>
    \o par \o <<"(">> \o inner \o <<"0">> \o inner \o <<")", " ", "returns">>
    \o par \o <<"(">> \o inner \o <<"0">> \o inner \o <<")", " ", "{">> \o body \o <<"}">>

\* The spellings of a definition the inputs use.
Plain(name, body)       == Definition(name, <<" ">>, << >>, << >>, body)
SpacedParens(name, body) == Definition(name, <<" ">>, <<" ">>, << >>, body)
WideKeywords(name, body) == Definition(name, <<" ", " ">>, << >>, << >>, body)
PaddedArity(name, body)  == Definition(name, <<" ">>, << >>, <<" ">>, body)

Helper == Plain("ADD", <<"\n", "add", "\n">>)

\* An include directive, as the imports argument holds it and as a line of
\* a file.
IncludeDirective(name) == <<"#include", " ", "\"", ".", "/", name, "\"">>
IncludeLine(name) == IncludeDirective(name) \o <<"\n">>

\* The working directory and the paths of the files of the workspace.
Cwd == <<"ws">>
MainFile == <<"src", "Main.huff">>
LibA == <<"src", "A.huff">>
LibB == <<"src", "B.huff">>

RECURSIVE SeqsUpTo(_, _)
\* The sequences over S of length at most n.
SeqsUpTo(S, n) ==
  IF n = 0 THEN {<< >>}
  ELSE LET shorter == SeqsUpTo(S, n - 1)
       IN  shorter \cup {Append(q, x) : q \in shorter, x \in S}

\* Sequences without a repeated element.
NoRepeat(q) == \A i, j \in 1..Len(q) : i # j => q[i] # q[j]

\* ---------------------------------------------------- session configurator

\* object.toString() of a plain object: the text does not depend on the
\* object's fields.
ObjectToString(obj) == "[object Object]"

\* createKeccakHash("keccak256").update(Buffer.from(x)).digest("hex")
\*   .toString("hex").slice(0, 42) : the first 42 hexadecimal characters of
\* the digest of x.  The digest is kept symbolic: equal inputs give equal
\* digests and the model assumes no collision between different inputs.
KeccakSlice(x) == [keccak256 |-> x, slice |-> <<0, 42>>]

\* The settings of options.js that the pipeline reads.
hevmConfig ==
  [hevmCaller |-> "hevmCaller", statePath |-> "statePath",
   tempMacroFilename |-> "tempMacroFilename",
   tempHevmCommandFilename |-> "tempHevmCommandFilename"]

\* { ...hevmConfig, ...options, <computed fields> } : a later source wins.
Merge(low, high) ==
  [k \in DOMAIN low \cup DOMAIN high |-> IF k \in DOMAIN high THEN high[k] ELSE low[k]]

\* config of startMacroDebugger (debugger/macro): the address is the digest
\* of macro.toString().
MacroConfig(options, macro, mountedDrive) ==
  Merge(Merge(hevmConfig, options),
        [mountedDrive |-> mountedDrive,
         hevmContractAddress |-> KeccakSlice(ObjectToString(macro))])

\* config of startMacroDebugger (viewer): no mountedDrive field.
ViewerConfig(options, macro) ==
  Merge(Merge(hevmConfig, options),
        [hevmContractAddress |-> KeccakSlice(ObjectToString(macro))])

\* A plausible slip: one address for every file.
DebuggerConfigOneAddress(options, currentFile, mountedDrive) ==
  Merge(Merge(hevmConfig, options),
        [hevmContractAddress |-> KeccakSlice("currentFile"), stateChecked |-> TRUE,
         mountedDrive |-> mountedDrive])

\* config of startDebugger: the address is the digest of the currentFile
\* argument (the path of the file), and stateChecked is forced.
DebuggerConfig(options, currentFile, mountedDrive) ==
  Merge(Merge(hevmConfig, options),
        [hevmContractAddress |-> KeccakSlice(currentFile), stateChecked |-> TRUE,
         mountedDrive |-> mountedDrive])

\* ------------------------------------------------------ external tools

\* The compiler's output for a source text that compiles.
Bytecode(source) == [bytecodeOf |-> source]

\* The simulator's create-mode output: the code left at the address.
RuntimeOf(bytecode) == [runtimeOf |-> bytecode]

\* The command of deployContract (viewer utils).  The state clause is put
\* in for a truthy config.state only, a key neither copy of the pipeline
\* sets.
DeployCommand(bytecode, config) ==
  [exec    |-> "hevm exec",
   code    |-> bytecode,
   address |-> config.hevmContractAddress,
   create  |-> TRUE,
   caller  |-> config.hevmCaller,
   gas     |-> "0xffffffff",
   state   |-> IF "state" \in DOMAIN config /\ config.state
               THEN <<"--state", Cwd, config.statePath>> ELSE << >>]

\* formatEvenBytes: a hexadecimal text (its digits after 0x) padded on the
\* left to an even number of digits.
formatEvenBytes(hex) == IF Len(hex) % 2 = 1 THEN <<"0">> \o hex ELSE hex

\* (config.mountedDrive ? "/mnt/" + mountedDrive : "") ; a null drive is
\* the text "null".
MountPrefix(config) ==
  IF config.mountedDrive # "null" THEN <<"/mnt/", config.mountedDrive>> ELSE << >>

\* hevmCommand of runMacroDebugger (debugger/macro).  A clause that is left
\* out is the empty sequence.
MacroCommand(runtimeBytecode, config) ==
  [exec     |-> "hevm exec",
   code     |-> <<"--code", runtimeBytecode>>,
   address  |-> <<"--address", config.hevmContractAddress>>,
   caller   |-> <<"--caller", config.hevmCaller>>,
   gas      |-> <<"--gas", "0xffffffff">>,
   state    |-> IF config.stateChecked \/ config.storageChecked
                THEN <<"--state", MountPrefix(config), Cwd, config.statePath>>
                ELSE << >>,
   calldata |-> IF config.calldataChecked
                THEN <<"--calldata", formatEvenBytes(config.calldataValue)>> ELSE << >>,
   value    |-> IF config.callValueChecked
                THEN <<"--value", config.callValue>> ELSE << >>,
   debug    |-> <<"--debug">>]

\* command of runMacroDebugger (viewer): it has no value clause.
ViewerCommand(runtimeBytecode, config) ==
  [exec     |-> "hevm exec",
   code     |-> <<"--code", runtimeBytecode>>,
   address  |-> <<"--address", config.hevmContractAddress>>,
   caller   |-> <<"--caller", config.hevmCaller>>,
   gas      |-> <<"--gas", "0xffffffff">>,
   state    |-> IF config.stateChecked \/ config.storageChecked
                THEN <<"--state", Cwd, config.statePath>> ELSE << >>,
   calldata |-> IF config.calldataChecked
                THEN <<"--calldata", formatEvenBytes(config.calldataValue)>> ELSE << >>,
   value    |-> << >>,
   debug    |-> <<"--debug">>]

\* hevmCommand of runDebugger (whole-file debugger): calldata is the result
\* of encodeCalldata, undefined when the encoding failed.
DebuggerCommand(bytecode, calldata, config) ==
  [exec     |-> "hevm exec",
   code     |-> <<"--code", bytecode>>,
   address  |-> <<"--address", config.hevmContractAddress>>,
   caller   |-> <<"--caller", config.hevmCaller>>,
   gas      |-> <<"--gas", "0xffffffff">>,
   state    |-> <<"--state", MountPrefix(config), Cwd, config.statePath>>,
   calldata |-> IF calldata.defined
                THEN <<"--calldata", calldata>> ELSE << >>,
   value    |-> IF config.callValueChecked
                THEN <<"--value", config.callValue>> ELSE << >>,
   debug    |-> <<"--debug">>]

\* The argument types the ABI encoder accepts.
AbiTypes == {"uint256", "address"}

\* encodeCalldata: the selector alone for no arguments, the selector and
\* the encoded arguments otherwise; an encoder error is caught inside the
\* function, reported, and the function then returns undefined.
encodeCalldata(functionSelector, argsObject) ==
  IF Len(argsObject) = 0
  THEN [defined |-> TRUE, threw |-> FALSE, selector |-> functionSelector[1], encoded |-> << >>]
  ELSE IF \E i \in 1..Len(argsObject) : argsObject[i][1] \notin AbiTypes
  THEN [defined |-> FALSE, threw |-> TRUE, selector |-> "", encoded |-> << >>]
  ELSE [defined |-> TRUE, threw |-> FALSE, selector |-> functionSelector[1],
        encoded |-> argsObject]

\* ------------------------------------------------------------- the state

VARIABLES
  fs,               \* the files of the workspace: path -> text
  argsObject,       \* the caller's ArgumentList array (one object, passed by reference)
  session,          \* the arguments of the running session and its number
  pc,               \* the position of the running session in its pipeline
  config,           \* the session's config object
  calldata,         \* startDebugger: the result of encodeCalldata
  compilable,       \* compilableMacro / compilableFile
  bytecode,         \* the compiler's output
  runtimeBytecode,  \* the output of the create pass
  cache,            \* the command files under <cwd>/cache: name -> what was written last
  terminals,        \* the terminals opened by runInUserTerminal, in order
  errors,           \* what registerError was called with in the running session
  trace,            \* the external steps the running session has taken, in order
  input,            \* function-level specifications: the arguments
  output            \* function-level specifications: the function applied and its result

vars == <<fs, argsObject, session, pc, config, calldata, compilable, bytecode,
          runtimeBytecode, cache, terminals, errors, trace, input, output>>

pipelineVars == <<fs, argsObject, session, pc, config, calldata, compilable, bytecode,
                  runtimeBytecode, cache, terminals, errors, trace>>

\* The number of sessions a run starts.
MaxSessions == 2

\* ------------------------------------------- the inputs of the pipeline

MainText == IncludeLine("A.huff") \o Plain("MAIN", <<"\n", "stop", "\n">>) \o <<"\n">> \o Helper
LibText  == Plain("MAIN", <<"stop">>) \o <<"\n">> \o Plain("CONSTRUCTOR", <<"\n", "caller", "\n">>)

\* The workspace with both files, and with the included file missing.
FsFull    == ((Cwd \o MainFile) :> MainText) @@ ((Cwd \o LibA) :> LibText)
FsMissing == ((Cwd \o MainFile) :> MainText)

\* The macro the sessions of the pipeline debug.
AddMacro == [body |-> <<"0x01", " ", "0x02", " ", "add">>, takes |-> 2, returns |-> 1]

ArgLists == { <<"0x05", "0x06">> }

NoOptions ==
  [stateChecked |-> FALSE, storageChecked |-> FALSE, calldataChecked |-> FALSE,
   callValueChecked |-> FALSE, calldataValue |-> <<"1", "2", "3">>, callValue |-> "0x1",
   stateValues |-> <<[key |-> "0x00", value |-> "0x2a"]>>]

OptionSets ==
  { NoOptions,
    [NoOptions EXCEPT !.stateChecked = TRUE],
    [NoOptions EXCEPT !.storageChecked = TRUE] }

FunctionSelector == <<"a9059cbb">>

ArgsArrays == { << >>, << <<"uint256", "1">> >>, << <<"uint999", "1">> >> }

\* ------------------------------------------------------- initial state

NoSession == [id |-> 0, kind |-> "none"]
NoConfig == [none |-> TRUE]
NoCalldata == [defined |-> FALSE, threw |-> FALSE, selector |-> "", encoded |-> << >>]
NoCode == [none |-> TRUE]
NoCommand == [exec |-> "none"]

PipelineInit ==
  /\ fs \in {FsFull, FsMissing}
  /\ argsObject = << >>
  /\ session = NoSession
  /\ pc = "idle"
  /\ config = NoConfig
  /\ calldata = NoCalldata
  /\ compilable = << >>
  /\ bytecode = NoCode
  /\ runtimeBytecode = NoCode
  /\ cache = [f \in {"hevmtemp", hevmConfig.tempHevmCommandFilename} |->
                [writer |-> 0, command |-> NoCommand]]
  /\ terminals = << >>
  /\ errors = << >>
  /\ trace = << >>

NoInput == [fn |-> "none"]

Init ==
  /\ PipelineInit
  /\ input = NoInput
  /\ output = NoInput

\* --------------------------------------------------------- the pipeline

\* One external step of the running session.
Event(ev, use, stateClause) ==
  [ev |-> ev, use |-> use, state |-> stateClause,
   address |-> IF ev \in {"create", "write"} THEN config.hevmContractAddress ELSE NoCode]

\* registerError(e, message)
registerError(what) == errors' = Append(errors, [session |-> session.id, error |-> what])

\* The catch block of startMacroDebugger / startDebugger: the error is
\* reported and the function returns.
Catch(what) ==
  /\ registerError(what)
  /\ pc' = "done"
  /\ trace' = Append(trace, Event("error", what, FALSE))

\* startMacroDebugger (debugger/macro) up to the config object.  installed
\* is the answer of checkInstallations, mountedDrive what the WSL path
\* handling found (no mounted drive in the pipeline's runs).
StartMacroDebugger ==
  /\ pc = "idle"
  /\ session.id < MaxSessions
  /\ \E macro \in {AddMacro}, args \in ArgLists \cup {argsObject},
        options \in OptionSets, installed \in BOOLEAN, mountedDrive \in {"null"} :
       /\ argsObject' = args
       /\ session' = [id |-> session.id + 1, kind |-> "macro", currentFile |-> MainFile,
                      imports |-> <<IncludeDirective("A.huff")>>, macro |-> macro,
                      args |-> args, options |-> options]
       /\ IF installed
          THEN /\ config' = MacroConfig(options, macro, mountedDrive)
               /\ pc' = "flatten"
          ELSE /\ config' = NoConfig
               /\ pc' = "done"
  /\ calldata' = NoCalldata
  /\ compilable' = << >>
  /\ bytecode' = NoCode
  /\ runtimeBytecode' = NoCode
  /\ trace' = << >>
  /\ errors' = << >>
  /\ UNCHANGED <<fs, cache, terminals, input, output>>

\* startMacroDebugger (viewer) up to the config object.
StartMacroDebuggerViewer ==
  /\ pc = "idle"
  /\ session.id < MaxSessions
  /\ \E macro \in {AddMacro}, args \in ArgLists \cup {argsObject},
        options \in OptionSets, installed \in BOOLEAN :
       /\ argsObject' = args
       /\ session' = [id |-> session.id + 1, kind |-> "viewer", currentFile |-> MainFile,
                      imports |-> <<IncludeDirective("A.huff")>>, macro |-> macro,
                      args |-> args, options |-> options]
       /\ IF installed
          THEN /\ config' = ViewerConfig(options, macro)
               /\ pc' = "flatten"
          ELSE /\ config' = NoConfig
               /\ pc' = "done"
  /\ calldata' = NoCalldata
  /\ compilable' = << >>
  /\ bytecode' = NoCode
  /\ runtimeBytecode' = NoCode
  /\ trace' = << >>
  /\ errors' = << >>
  /\ UNCHANGED <<fs, cache, terminals, input, output>>

\* startDebugger up to the config object.
StartDebugger ==
  /\ pc = "idle"
  /\ session.id < MaxSessions
  /\ \E argsArray \in ArgsArrays, options \in {NoOptions},
        installed \in BOOLEAN, mountedDrive \in {"null"} :
       /\ session' = [id |-> session.id + 1, kind |-> "debugger", currentFile |-> MainFile,
                      imports |-> <<IncludeDirective("A.huff")>>,
                      functionSelector |-> FunctionSelector, argsArray |-> argsArray,
                      options |-> options]
       /\ IF installed
          THEN /\ config' = DebuggerConfig(options, MainFile, mountedDrive)
               /\ pc' = "encode"
          ELSE /\ config' = NoConfig
               /\ pc' = "done"
  /\ calldata' = NoCalldata
  /\ compilable' = << >>
  /\ bytecode' = NoCode
  /\ runtimeBytecode' = NoCode
  /\ trace' = << >>
  /\ errors' = << >>
  /\ UNCHANGED <<fs, argsObject, cache, terminals, input, output>>

\* startDebugger: const calldata = await encodeCalldata(...).  An encoder
\* error is reported by encodeCalldata itself, which then returns
\* undefined; startDebugger goes on.
EncodeCalldata ==
  /\ pc = "encode"
  /\ \E r \in {encodeCalldata(session.functionSelector, session.argsArray)} :
         /\ calldata' = r
         /\ IF r.threw
            THEN /\ registerError("EncodingFailure")
                 /\ trace' = Append(trace, Event("error", "EncodingFailure", FALSE))
            ELSE /\ errors' = errors
                 /\ trace' = Append(trace, Event("encode", "", FALSE))
  /\ pc' = "flatten"
  /\ UNCHANGED <<fs, argsObject, session, config, compilable, bytecode, runtimeBytecode,
                 cache, terminals, input, output>>

\* createCompiledMacro / flattenFile as called by the session.
Flattened ==
  CASE session.kind = "macro" ->
         createCompiledMacro(Cwd, session.macro, argsObject, session.currentFile,
                             session.imports, fs)
    [] session.kind = "viewer" ->
         createCompiledMacroViewer(Cwd, session.macro, argsObject, session.currentFile,
                                   session.imports, fs)
    [] session.kind = "debugger" ->
         [args |-> argsObject] @@ flattenFile(Cwd, session.currentFile, session.imports, fs)

\* The flattening step; a read that throws ends the session in the catch
\* block.
Flatten ==
  /\ pc = "flatten"
  /\ \E r \in {Flattened} :
         IF r.err
         THEN /\ Catch("ReadFailure")
              /\ UNCHANGED <<compilable, argsObject>>
         ELSE /\ compilable' = r.text
              /\ argsObject' = r.args
              /\ pc' = IF session.kind # "debugger" /\ config.storageChecked
                       THEN "override" ELSE "compile"
              /\ trace' = Append(trace, Event("flatten", "", FALSE))
              /\ errors' = errors
  /\ UNCHANGED <<fs, session, config, calldata, bytecode, runtimeBytecode, cache,
                 terminals, input, output>>

\* if (config.storageChecked) compilableMacro = overrideStorage(...)
OverrideStorage ==
  /\ pc = "override"
  /\ compilable' = IF session.kind = "macro"
                   THEN overrideStorage(compilable, config.stateValues)
                   ELSE overrideStorageViewer(compilable, config.stateValues)
  /\ pc' = "compile"
  /\ trace' = Append(trace, Event("override", "", FALSE))
  /\ UNCHANGED <<fs, argsObject, session, config, calldata, bytecode, runtimeBytecode,
                 cache, terminals, errors, input, output>>

\* compileFromFile: the compiler's bytecode, or its error thrown.
Compile ==
  /\ pc = "compile"
  /\ \E ok \in BOOLEAN :
       IF ok
       THEN /\ bytecode' = Bytecode(compilable)
            /\ pc' = "deploy"
            /\ trace' = Append(trace, Event("compile", "", FALSE))
            /\ errors' = errors
       ELSE /\ Catch("CompileFailure")
            /\ bytecode' = bytecode
  /\ UNCHANGED <<fs, argsObject, session, config, calldata, compilable, runtimeBytecode,
                 cache, terminals, input, output>>

\* deployContract: the create command is written to cache/hevmtemp and run
\* from there with execSync, which returns the simulator's output or throws.
deployContract(code, use, next, ok) ==
  \E command \in {DeployCommand(code, config)} :
      /\ cache' = [cache EXCEPT !["hevmtemp"] = [writer |-> session.id, command |-> command]]
      /\ IF ok
         THEN /\ pc' = next
              /\ trace' = Append(trace, Event("create", use, command.state # << >>))
              /\ errors' = errors
         ELSE Catch("DeployFailure")

\* A plausible slip: the second pass is made for a storage override too.
StatePassDueForStorage ==
  session.kind = "viewer" /\ (config.stateChecked \/ config.storageChecked)

\* runMacroDebugger (viewer) starts with: if (stateChecked) deployContract(...)
\* ; the other two run functions make no create pass.
StatePassDue == session.kind = "viewer" /\ config.stateChecked

\* const runtimeBytecode = deployContract(bytecode, config, cwd)
Deploy ==
  /\ pc = "deploy"
  /\ \E ok \in BOOLEAN :
       /\ deployContract(bytecode, "runtime", IF StatePassDue THEN "persist" ELSE "run", ok)
       /\ runtimeBytecode' = IF ok THEN RuntimeOf(bytecode) ELSE runtimeBytecode
  /\ UNCHANGED <<fs, argsObject, session, config, calldata, compilable, bytecode,
                 terminals, input, output>>

\* runMacroDebugger (viewer): if (stateChecked) deployContract(bytecode,
\* config, cwd); the result is not used.
DeployForState ==
  /\ pc = "persist"
  /\ \E ok \in BOOLEAN : deployContract(bytecode, "discarded", "run", ok)
  /\ UNCHANGED <<fs, argsObject, session, config, calldata, compilable, bytecode,
                 runtimeBytecode, terminals, input, output>>

\* The debug command the session composes.
Command ==
  CASE session.kind = "macro"    -> MacroCommand(runtimeBytecode, config)
    [] session.kind = "viewer"   -> ViewerCommand(runtimeBytecode, config)
    [] session.kind = "debugger" -> DebuggerCommand(runtimeBytecode, calldata, config)

\* runMacroDebugger / runDebugger: the command is composed, written to the
\* command file with writeHevmCommand, and a terminal is opened with the
\* command that runs the file's content.
RunDebugger ==
  /\ pc = "run"
  /\ \E command \in {Command} :
       /\ cache' = [cache EXCEPT ![config.tempHevmCommandFilename] =
                      [writer |-> session.id, command |-> command]]
       /\ trace' = trace \o <<Event("write", "", command.state # << >>),
                               Event("launch", "", FALSE)>>
  /\ terminals' = Append(terminals, [session |-> session.id,
                                     file |-> config.tempHevmCommandFilename,
                                     ran |-> << >>])
  /\ pc' = "done"
  /\ UNCHANGED <<fs, argsObject, session, config, calldata, compilable, bytecode,
                 runtimeBytecode, errors, input, output>>

\* The shell of a terminal runs the command it was sent: it reads the
\* command file as it is at that moment.
TerminalRead ==
  /\ \E i \in 1..Len(terminals) :
       /\ terminals[i].ran = << >>
       /\ terminals' = [terminals EXCEPT ![i].ran = <<cache[terminals[i].file]>>]
  /\ UNCHANGED <<fs, argsObject, session, pc, config, calldata, compilable, bytecode,
                 runtimeBytecode, cache, errors, trace, input, output>>

\* The session's function has returned; the extension can start another.
Return ==
  /\ pc = "done"
  /\ session.id < MaxSessions
  /\ pc' = "idle"
  /\ UNCHANGED <<fs, argsObject, session, config, calldata, compilable, bytecode,
                 runtimeBytecode, cache, terminals, errors, trace, input, output>>

Next ==
  \/ StartMacroDebugger
  \/ StartMacroDebuggerViewer
  \/ StartDebugger
  \/ EncodeCalldata
  \/ Flatten
  \/ OverrideStorage
  \/ Compile
  \/ Deploy
  \/ DeployForState
  \/ RunDebugger
  \/ TerminalRead
  \/ Return

Spec == Init /\ [][Next]_vars

\* ====================================================================
\* Function-level specifications: the arguments are drawn from bounded
\* sets in the initial state and one step applies a function to them.
\* ====================================================================

\* The step of a function-level specification: fn applied to the input.
Apply(fn, result) ==
  /\ input.fn = "args"
  /\ output = NoInput
  /\ output' = [fn |-> fn, result |-> result]
  /\ UNCHANGED <<input, pipelineVars>>

\* The pipeline's variables in a function-level specification.
PipelineIdle == PipelineInit /\ fs = FsFull

\* ------------------------------------------- flattening: the arguments

\* The most include directives and the most stack arguments of an input.
MaxImports == 2
MaxArgs == 2

\* The texts a file of the workspace may hold: entry points in several
\* numbers and spellings, among other definitions.
FileSamples ==
  { Helper,
    IncludeLine("B.huff") \o Plain("MAIN", <<"\n", "stop", "\n">>) \o <<"\n">> \o Helper,
    SpacedParens("MAIN", <<"stop">>) \o <<"\n">> \o Helper
      \o <<"\n">> \o PaddedArity("MAIN", <<"\n", "add", "\n">>),
    Helper \o <<"\n">> \o WideKeywords("MAIN", <<"stop">>),
    Plain("CONSTRUCTOR", <<"caller">>) \o <<"\n">> \o PaddedArity("MAIN", <<"stop">>),
    Plain("MAIN", <<"stop">>) \o <<"\n">> \o Plain("MAIN", <<"add">>) }

LibNames == {"A.huff", "B.huff"}

\* The macro bodies: without a jump label, with one, with two on two
\* lines, with two on one line.
BodySamples ==
  { <<"stop">>,
    <<"0x01", " ", "0x02", " ", "add">>,
    <<"<", "loopStart", ">", " ", "jump">>,
    <<"<", "a", ">", " ", "jumpi", "\n", "<", "b", ">", " ", "jump", "\n">>,
    <<"<", "a", ">", " ", "jumpi", " ", "<", "b", ">", " ", "jump">> }

ArgValues == {"0x05", "0x06", "0x07"}

\* Inputs that vary the files and the include directives.
FileCases ==
  { [fn |-> "args", main |-> m, libA |-> a, libB |-> Helper, names |-> n,
     body |-> <<"stop">>, args |-> <<"0x05", "0x06">>] :
      m \in FileSamples, a \in FileSamples, n \in SeqsUpTo(LibNames, MaxImports) }

\* Inputs that vary the macro body and the stack arguments.
MacroCases ==
  { [fn |-> "args", main |-> MainText, libA |-> LibText, libB |-> Helper,
     names |-> <<"A.huff">>, body |-> b, args |-> g] :
      b \in BodySamples, g \in SeqsUpTo(ArgValues, MaxArgs) }

\* The workspace and the arguments an input stands for.
InputFs ==
  ((Cwd \o MainFile) :> input.main) @@ ((Cwd \o LibA) :> input.libA)
    @@ ((Cwd \o LibB) :> input.libB)
InputImports == Each(input.names, LAMBDA n : IncludeDirective(n))
InputMacro == [body |-> input.body, takes |-> 0, returns |-> 0]

FlattenInit ==
  /\ PipelineIdle
  /\ input \in FileCases \cup MacroCases
  /\ output = NoInput

ApplyCreateCompiledMacro ==
  Apply("createCompiledMacro",
        createCompiledMacro(Cwd, InputMacro, input.args, MainFile, InputImports, InputFs))

ApplyCreateCompiledMacroViewer ==
  Apply("createCompiledMacroViewer",
        createCompiledMacroViewer(Cwd, InputMacro, input.args, MainFile, InputImports, InputFs))

ApplyFlattenFile ==
  Apply("flattenFile", flattenFile(Cwd, MainFile, InputImports, InputFs))

FlattenNext ==
  \/ ApplyCreateCompiledMacro
  \/ ApplyCreateCompiledMacroViewer
  \/ ApplyFlattenFile

SpecFlatten == FlattenInit /\ [][FlattenNext]_vars

\* --------------------------------------------- flattening: the claims

\* A definition of the macro called name starts at position i: the
\* keywords "#define", "macro" and the name, separated by whitespace.
IsDefinitionOf(text, i, name) ==
  Lit(text, PlusWs(text, Lit(text, PlusWs(text, Lit(text, i, "#define")), "macro")), name) # 0

\* The number of definitions of the macro called name in a text.
CountDefinitions(text, name) ==
  Cardinality({i \in 1..Len(text) : IsDefinitionOf(text, i, name)})

\* Every entry point of the text is written in a spelling the expression
\* named by kind matches.
Tolerated(kind, text) ==
  \A i \in 1..Len(text) : IsDefinitionOf(text, i, "MAIN") => MatchEnd(kind, text, i) # 0

\* The texts of the included files of the input, in the directives' order.
IncludedTexts == Each(input.names, LAMBDA n : InputFs[Cwd \o <<"src", n>>])

AllTolerated(kind, texts) == \A i \in 1..Len(texts) : Tolerated(kind, texts[i])

Applied(fn) == output.fn = fn /\ ~output.result.err

\* C1 as stated: whatever number of entry points the input files hold, in
\* spellings the function's pattern tolerates, the text createCompiledMacro
\* or flattenFile returns holds exactly one entry-point definition.
C1_ExactlyOneMain ==
  /\ Applied("createCompiledMacro")
       /\ AllTolerated("macroMain", <<input.main>> \o IncludedTexts)
     => CountDefinitions(output.result.text, "MAIN") = 1
  /\ Applied("flattenFile")
       /\ AllTolerated("main", <<input.main>> \o IncludedTexts)
     => CountDefinitions(output.result.text, "MAIN") = 1

\* C1 amended: createCompiledMacro returns a text with exactly one entry
\* point (the one it writes) when every entry point of the files it reads
\* is in a spelling its pattern matches; flattenFile strips the included
\* files only, so its text holds as many entry points as the current file
\* does, when those of the included files are in a spelling mainRegex matches.
C1_MainCount ==
  /\ Applied("createCompiledMacro")
       /\ AllTolerated("macroMain", <<input.main>> \o IncludedTexts)
     => CountDefinitions(output.result.text, "MAIN") = 1
  /\ Applied("flattenFile") /\ AllTolerated("main", IncludedTexts)
     => CountDefinitions(output.result.text, "MAIN") = CountDefinitions(input.main, "MAIN")

\* flattenFile was applied to a current file with two entry points and an
\* included file with one more: two are left.
C1_Witness ==
  /\ Applied("flattenFile")
  /\ input.names = <<"A.huff">>
  /\ AllTolerated("main", IncludedTexts)
  /\ CountDefinitions(input.libA, "MAIN") >= 1
  /\ CountDefinitions(input.main, "MAIN") = 2
  /\ CountDefinitions(output.result.text, "MAIN") = 2

\* The paths the include directives of the input resolve to.
ExpectedPaths == Each(input.names, LAMBDA n : Cwd \o <<"src", n>>)

\* C9 as stated: the list of paths has len(imports) + 1 entries, the
\* includes in the directives' order and the current file's path last, in
\* createCompiledMacro and in flattenFile.
C9_CurrentFileLast ==
  output.fn \in {"createCompiledMacro", "flattenFile"}
    => output.result.paths = ExpectedPaths \o <<Cwd \o MainFile>>

\* C9 amended: createCompiledMacro's list is the includes in the directives'
\* order and then the current file (len(imports) + 1 paths); flattenFile's
\* list holds the len(imports) includes only, in the directives' order, and
\* the current file is read apart from it and its text is placed first.
C9_PathOrder ==
  /\ output.fn = "createCompiledMacro"
       => output.result.paths = ExpectedPaths \o <<Cwd \o MainFile>>
  /\ output.fn = "flattenFile"
       => /\ output.result.paths = ExpectedPaths
          /\ output.result.read = <<Cwd \o MainFile>> \o ExpectedPaths

\* createCompiledMacro was applied to two different include directives.
C9_Witness ==
  /\ Applied("createCompiledMacro")
  /\ Len(input.names) = 2
  /\ input.names[1] # input.names[2]
  /\ Len(output.result.paths) = 3
  /\ output.result.paths[3] = Cwd \o MainFile

\* The arguments in reverse order, one separator between two of them.
RECURSIVE ExpectedPush(_)
ExpectedPush(args) ==
  IF Len(args) = 0 THEN << >>
  ELSE IF Len(args) = 1 THEN <<args[1]>>
  ELSE ExpectedPush(Tail(args)) \o <<" ", args[1]>>

\* What a text holds after its last opening brace: the content of the
\* entry point createCompiledMacro wrote (no macro body holds a brace).
EntryPoint(text) == Drop(text, Greatest({i \in 1..Len(text) : text[i] = "{"}) + 1)

HasLabel(body) == \E i \in 1..Len(body) : body[i] = "<"

\* C3 as stated: in a macro-debug session (either copy of
\* createCompiledMacro) the entry point holds the arguments in reverse
\* order, one separator between two, before the macro body.
C3_ArgsReversed ==
  output.fn \in {"createCompiledMacro", "createCompiledMacroViewer"} /\ ~output.result.err
    => LET e == EntryPoint(output.result.text)
           push == <<"\n", " ", " ">> \o ExpectedPush(input.args) \o <<"\n", " ", " ">>
       IN  /\ Len(e) > Len(push)
           /\ SubSeq(e, 1, Len(push)) = push
           /\ ~HasLabel(input.body)
                => Drop(e, Len(push) + 1) = input.body \o <<"\n", "}">>

\* The macro body as createCompiledMacro placed it in the entry point.
PlacedBody ==
  LET e == EntryPoint(output.result.text)
  IN  SubSeq(e, Len(ExpectedPush(input.args)) + 7, Len(e) - 2)

\* A body with every label reference < name > replaced by the word error.
RECURSIVE Neutralized(_)
Neutralized(body) ==
  IF Len(body) = 0 THEN << >>
  ELSE IF Len(body) >= 3 /\ body[1] = "<" /\ body[3] = ">"
       THEN <<"error">> \o Neutralized(Drop(body, 4))
  ELSE <<body[1]>> \o Neutralized(Tail(body))

HaltBlock == <<"error:", "\n", "\t", "0x0", " ", "dup1", " ", "stop">>

\* C5 as stated: a body with label references is placed with every
\* reference replaced by error and the rest of its text kept, followed by
\* exactly one error: halt block, and holds no angle bracket; a body
\* without a reference is placed as it is, without an error: block.
C5_LabelsNeutralized ==
  Applied("createCompiledMacro")
    => IF HasLabel(input.body)
       THEN /\ PlacedBody = Neutralized(input.body) \o HaltBlock
            /\ \A i \in 1..Len(PlacedBody) : PlacedBody[i] \notin {"<", ">"}
       ELSE PlacedBody = input.body

\* ====================================================================
\* Storage override, function level
\* ====================================================================

\* The most overrides of an input.
MaxOverrides == 2

\* The state overrides a configuration may hold.
StateValues == { [key |-> k, value |-> v] : k \in {"0x00", "0x01"}, v \in {"0x0a", "0x0b"} }

\* The entry point createCompiledMacro ends a flattened source with.
SynthesizedMain ==
  <<"\n">> \o MainOpen \o <<"\n", " ", " ", "0x05", "\n", " ", " ", "stop", "\n", "}">>

\* Flattened sources: without a constructor, with one in the spellings the
\* expression accepts (its body empty, or holding a store already), and
\* with one in a spelling it does not accept.
OverrideSources ==
  { Helper \o SynthesizedMain,
    Helper \o <<"\n">> \o Plain("CONSTRUCTOR", << >>) \o SynthesizedMain,
    Plain("CONSTRUCTOR", <<"\n", "0x2a", " ", "0x07", " ", "sstore", "\n">>)
      \o <<"\n">> \o Helper \o SynthesizedMain,
    SpacedParens("CONSTRUCTOR", <<"\n", "caller", "\n">>) \o SynthesizedMain,
    Definition("CONSTRUCTOR", <<" ", "\n">>, << >>, << >>, <<"caller">>) \o SynthesizedMain,
    PaddedArity("CONSTRUCTOR", <<"caller">>) \o SynthesizedMain }

OverrideInit ==
  /\ PipelineIdle
  /\ input \in { [fn |-> "args", macro |-> m, stateValues |-> v] :
                   m \in OverrideSources, v \in SeqsUpTo(StateValues, MaxOverrides) }
  /\ output = NoInput

ApplyOverrideStorage ==
  Apply("overrideStorage", overrideStorage(input.macro, input.stateValues))

ApplyOverrideStorageViewer ==
  Apply("overrideStorageViewer", overrideStorageViewer(input.macro, input.stateValues))

OverrideNext ==
  \/ ApplyOverrideStorage
  \/ ApplyOverrideStorageViewer

SpecOverride == OverrideInit /\ [][OverrideNext]_vars

\* Every constructor of the text is written in a spelling constructorRegex
\* matches.
Accepted(text) ==
  \A i \in 1..Len(text) :
    IsDefinitionOf(text, i, "CONSTRUCTOR") => MatchEnd("constructor", text, i) # 0

\* The body of the first constructor of a text, empty when it has none.
ConstructorBody(text) ==
  LET at == {i \in 1..Len(text) : IsDefinitionOf(text, i, "CONSTRUCTOR")}
  IN  IF at = {} THEN << >>
      ELSE LET o == IndexOf(text, "{", Least(at))
           IN  SubSeq(text, o + 1, IndexOf(text, "}", o) - 1)

\* The store instructions of a text, in order.
RECURSIVE StoresOf(_)
StoresOf(text) ==
  IF Len(text) < 5 THEN << >>
  ELSE IF text[2] = " " /\ text[4] = " " /\ text[5] = "sstore"
       THEN <<[key |-> text[3], value |-> text[1]]>> \o StoresOf(Drop(text, 6))
  ELSE StoresOf(Tail(text))

\* C2: applied once to a flattened source with no constructor, or with
\* one constructor in a spelling constructorRegex accepts, and to N
\* overrides, overrideStorage returns a text with exactly one constructor;
\* its body holds the stores it held before followed by the N overrides,
\* one store each, in input order, and no store is put anywhere else.
C2_OneConstructorNStores ==
  /\ output.fn = "overrideStorage"
  /\ CountDefinitions(input.macro, "CONSTRUCTOR") <= 1
  /\ Accepted(input.macro)
  => /\ CountDefinitions(output.result, "CONSTRUCTOR") = 1
     /\ StoresOf(ConstructorBody(output.result))
          = StoresOf(ConstructorBody(input.macro)) \o input.stateValues
     /\ Len(StoresOf(output.result))
          = Len(StoresOf(input.macro)) + Len(input.stateValues)

\* overrideStorage was applied to a source whose constructor held a store
\* and to two different overrides.
C2_Witness ==
  /\ output.fn = "overrideStorage"
  /\ CountDefinitions(input.macro, "CONSTRUCTOR") = 1
  /\ Accepted(input.macro)
  /\ Len(StoresOf(ConstructorBody(input.macro))) = 1
  /\ Len(input.stateValues) = 2
  /\ input.stateValues[1] # input.stateValues[2]
  /\ Len(StoresOf(ConstructorBody(output.result))) = 3

\* ====================================================================
\* Derived address, function level: two sessions side by side
\* ====================================================================

\* Macro objects whose body texts differ in one place.
MacroSamples ==
  { AddMacro,
    [AddMacro EXCEPT !.body = <<"0x01", " ", "0x03", " ", "add">>],
    [AddMacro EXCEPT !.body = <<"0x01", " ", "0x02", " ", "sub">>] }

AddressInit ==
  /\ PipelineIdle
  /\ input \in { [fn |-> "args", macroA |-> ma, macroB |-> mb, fileA |-> fa, fileB |-> fb,
                  contentA |-> ca, contentB |-> cb] :
                   ma \in MacroSamples, mb \in MacroSamples,
                   fa \in {MainFile, LibA}, fb \in {MainFile, LibA},
                   ca \in {MainText, LibText}, cb \in {MainText, LibText} }
  /\ output = NoInput

ApplyMacroConfig ==
  Apply("startMacroDebugger",
        [a |-> MacroConfig(NoOptions, input.macroA, "null").hevmContractAddress,
         b |-> MacroConfig(NoOptions, input.macroB, "null").hevmContractAddress])

ApplyViewerConfig ==
  Apply("startMacroDebuggerViewer",
        [a |-> ViewerConfig(NoOptions, input.macroA).hevmContractAddress,
         b |-> ViewerConfig(NoOptions, input.macroB).hevmContractAddress])

ApplyDebuggerConfig ==
  Apply("startDebugger",
        [a |-> DebuggerConfig(NoOptions, input.fileA, "null").hevmContractAddress,
         b |-> DebuggerConfig(NoOptions, input.fileB, "null").hevmContractAddress])

AddressNext ==
  \/ ApplyMacroConfig
  \/ ApplyViewerConfig
  \/ ApplyDebuggerConfig

SpecAddress == AddressInit /\ [][AddressNext]_vars

\* C4 as stated: in macro debug (either copy of startMacroDebugger) two
\* sessions get the same address exactly when their macro texts are the
\* same: equal texts give equal addresses, different texts different ones.
C4_AddressOfMacroText ==
  output.fn \in {"startMacroDebugger", "startMacroDebuggerViewer"}
    => (output.result.a = output.result.b <=> input.macroA.body = input.macroB.body)

\* C8 as stated: in whole-file debug two sessions get the same address
\* exactly when the debugged files hold the same content.
C8_AddressOfContent ==
  output.fn = "startDebugger"
    => (output.result.a = output.result.b <=> input.contentA = input.contentB)

\* C8 amended: in whole-file debug the address is a function of the
\* debugged file's path (the currentFile argument): two sessions get the
\* same address exactly when they debug the same path, whatever the file
\* holds (digest collisions aside).
C8_AddressOfPath ==
  output.fn = "startDebugger"
    => (output.result.a = output.result.b <=> input.fileA = input.fileB)

\* startDebugger was applied to one path holding two different contents.
C8_Witness ==
  /\ output.fn = "startDebugger"
  /\ input.fileA = input.fileB
  /\ input.contentA # input.contentB
  /\ output.result.a = output.result.b

\* ====================================================================
\* Debug command, function level
\* ====================================================================

\* The options of a session: every combination of the four flags, a
\* calldata value with an odd and with an even number of digits.
CommandOptions ==
  { [NoOptions EXCEPT !.stateChecked = st, !.storageChecked = so, !.calldataChecked = cd,
                      !.callValueChecked = cv, !.calldataValue = v] :
      st \in BOOLEAN, so \in BOOLEAN, cd \in BOOLEAN, cv \in BOOLEAN,
      v \in {<<"1", "2", "3">>, <<"1", "2">>} }

CommandInit ==
  /\ PipelineIdle
  /\ input \in { [fn |-> "args", options |-> o, mountedDrive |-> d,
                  runtimeBytecode |-> RuntimeOf(Bytecode(<<"stop">>))] :
                   o \in CommandOptions, d \in {"null", "c"} }
  /\ output = NoInput

ApplyMacroCommand ==
  Apply("runMacroDebugger",
        MacroCommand(input.runtimeBytecode,
                     MacroConfig(input.options, AddMacro, input.mountedDrive)))

ApplyViewerCommand ==
  Apply("runMacroDebuggerViewer",
        ViewerCommand(input.runtimeBytecode, ViewerConfig(input.options, AddMacro)))

CommandNext ==
  \/ ApplyMacroCommand
  \/ ApplyViewerCommand

SpecCommand == CommandInit /\ [][CommandNext]_vars

\* The command holds the clause that starts with flag.
HasClause(clause, flag) == clause # << >> /\ clause[1] = flag

\* C6 as stated: the command of runMacroDebugger (either copy) holds
\* --code, --address, --caller, --gas 0xffffffff and --debug, the --state
\* clause exactly when stateChecked or storageChecked is set, the
\* --calldata clause exactly when calldataChecked is set, and the --value
\* clause exactly when callValueChecked is set.
C6_CommandClauses ==
  output.fn \in {"runMacroDebugger", "runMacroDebuggerViewer"}
    => LET c == output.result
           o == input.options
       IN  /\ c.code = <<"--code", input.runtimeBytecode>>
           /\ HasClause(c.address, "--address")
           /\ HasClause(c.caller, "--caller")
           /\ c.gas = <<"--gas", "0xffffffff">>
           /\ c.debug = <<"--debug">>
           /\ HasClause(c.state, "--state") <=> (o.stateChecked \/ o.storageChecked)
           /\ HasClause(c.calldata, "--calldata") <=> o.calldataChecked
           /\ HasClause(c.value, "--value") <=> o.callValueChecked

\* ====================================================================
\* The pipeline: the claims
\* ====================================================================

\* The positions of the running session's trace that hold the event ev.
At(ev) == {i \in 1..Len(trace) : trace[i].ev = ev}

\* The create passes whose output becomes the runtime bytecode.
RuntimePasses == {i \in At("create") : trace[i].use = "runtime"}

\* C7 as stated: once a fatal error has occurred in a session (a read, compile,
\* deploy or encoding failure) no later pipeline step runs, so no command
\* is written and no terminal is launched, and the error has been
\* reported through registerError.
C7_ErrorAborts ==
  \A i \in At("error") :
    /\ i = Len(trace)
    /\ \E e \in 1..Len(errors) : errors[e].error = trace[i].use

\* The running session requires persisted state.
RequiresState ==
  /\ "stateChecked" \in DOMAIN config
  /\ config.stateChecked \/ config.storageChecked

\* C10 as stated: in a session that requires persisted state a create pass
\* that targets the state path comes before the create pass whose output
\* is the runtime bytecode, with the same address; and every session that
\* composes a command has made the runtime create pass after the compiler
\* step and before the command.
C10_ConstructorPassFirst ==
  /\ RequiresState
       => \A r \in RuntimePasses :
            \E k \in At("create") :
              k < r /\ trace[k].state /\ trace[k].address = trace[r].address
  /\ \A w \in At("write") :
       \E c \in At("compile"), r \in RuntimePasses : c < r /\ r < w

\* C10 amended: every session that composes a command has made exactly
\* one runtime create pass, after the compiler step and before the command;
\* no create pass comes before the runtime pass; the only other create
\* pass is the one the viewer copy of runMacroDebugger makes when
\* stateChecked is set (not for a storage override alone), after the
\* runtime pass, against the same address, its output unused.
C10_RuntimePassOrder ==
  /\ Cardinality(RuntimePasses) <= 1
  /\ \A w \in At("write") :
       \E c \in At("compile"), r \in RuntimePasses : c < r /\ r < w
  /\ \A r \in RuntimePasses : \A k \in At("create") : k >= r
  /\ \A k \in At("create") \ RuntimePasses :
       /\ session.kind = "viewer"
       /\ config.stateChecked
       /\ trace[k].use = "discarded"
       /\ \E r \in RuntimePasses : r < k /\ trace[k].address = trace[r].address

\* A session with a storage override (and no state flag) has composed its
\* command after one create pass; a viewer session with the state flag has
\* made its second create pass after the runtime pass.
C10_Witness ==
  /\ At("write") # {}
  /\ \/ /\ session.kind = "macro"
        /\ config.storageChecked
        /\ Cardinality(At("create")) = 1
     \/ /\ session.kind = "viewer"
        /\ config.stateChecked
        /\ Cardinality(At("create")) = 2

\* C12: createCompiledMacro (debugger/macro) leaves the caller's
\* ArgumentList unchanged: the flattening step of a macro-debug session
\* does not change the list object, so a later session started with the
\* same object finds its elements in the original order.
C12_ArgumentListUnchanged ==
  [][pc = "flatten" /\ session.kind = "macro" => argsObject' = argsObject]_vars

\* C11: the uses of the shared command files by two sessions in one working
\* directory do not interleave: the command the shell of a session's
\* terminal reads from the command file is the one that same session
\* wrote, and the create command a session runs from cache/hevmtemp is the
\* one it wrote, never one written by the other session.
C11_ReadsOwnCommand ==
  /\ \A i \in 1..Len(terminals) :
       terminals[i].ran # << >> => terminals[i].ran[1].writer = terminals[i].session
  /\ At("create") # {} => cache["hevmtemp"].writer = session.id

====
